---- MODULE Spec2Model ----
(***************************************************************************)
(* Model of core/frontend/src/components/autopilot/AutopilotManagerUpdater *)
(* .ts: the nine request functions of the autopilot manager (lines 12-149) *)
(* and the StatusTextWatcher component (lines 151-201).                    *)
(*                                                                         *)
(* JavaScript values of mixed type are tagged records ([t |-> "null"],     *)
(* [t |-> "obj", ...], ...).  A string that the code inspects (a version   *)
(* string, a status text, a regular expression source) is a tuple of       *)
(* one-character strings; a template literal is the tuple of its pieces.   *)
(***************************************************************************)
EXTENDS Integers, Sequences, FiniteSets, TLC

VARIABLES
    store,        \* the autopilot_manager store: slot -> value
    inflight,     \* requests sent by back_axios and not yet answered
    calls,        \* number of invocations made so far
    issued,       \* issued[i]: the operation of invocation i
    last,         \* what the most recently settled invocation did
    phase,        \* StatusTextWatcher lifecycle: created / mounted / destroyed
    filter,       \* StatusTextWatcher prop `filter`
    filterRegex,  \* StatusTextWatcher data `filterRegex`
    messages,     \* StatusTextWatcher data `messages`
    listener,     \* StatusTextWatcher data `listener`
    bus,          \* mavlink2rest: listeners started / discarded, faults raised
    received,     \* the texts delivered to the callback, in arrival order
    lastCb        \* what the most recent callback run did

gatewayVars == <<store, inflight, calls, issued, last>>
watcherVars == <<phase, filter, filterRegex, messages, listener, bus, received, lastCb>>
vars == <<store, inflight, calls, issued, last,
          phase, filter, filterRegex, messages, listener, bus, received, lastCb>>

\* Bounds of the model.
MaxCalls == 2
MaxMessages == 4

----------------------------------------------------------------------------
\* JavaScript values

Null == [t |-> "null"]
Undefined == [t |-> "undefined"]
Bool(b) == [t |-> "bool", v |-> b]
Str(s) == [t |-> "str", v |-> s]

\* a ?? b
Coalesce(a, b) == IF a.t \in {"null", "undefined"} THEN b ELSE a

RECURSIVE Flatten(_)
\* Array.prototype.join(''): the concatenation of the elements
Flatten(ss) == IF ss = <<>> THEN <<>> ELSE Head(ss) \o Flatten(Tail(ss))

----------------------------------------------------------------------------
\* The semver package's SemVer constructor (strict mode), as called at line 79

Digits == {"0", "1", "2", "3", "4", "5", "6", "7", "8", "9"}
Letters == {"a", "b", "c", "d", "e", "f", "g", "h", "i", "j", "k", "l", "m",
            "n", "o", "p", "q", "r", "s", "t", "u", "v", "w", "x", "y", "z",
            "A", "B", "C", "D", "E", "F", "G", "H", "I", "J", "K", "L", "M",
            "N", "O", "P", "Q", "R", "S", "T", "U", "V", "W", "X", "Y", "Z"}
\* [0-9A-Za-z-]
IdChars == Digits \cup Letters \cup {"-"}

DigitVal(c) ==
    CASE c = "0" -> 0 [] c = "1" -> 1 [] c = "2" -> 2 [] c = "3" -> 3
      [] c = "4" -> 4 [] c = "5" -> 5 [] c = "6" -> 6 [] c = "7" -> 7
      [] c = "8" -> 8 [] c = "9" -> 9

RECURSIVE ToNat(_)
\* unary plus on a string of digits
ToNat(s) ==
    IF s = <<>> THEN 0
    ELSE ToNat(SubSeq(s, 1, Len(s) - 1)) * 10 + DigitVal(s[Len(s)])

DigitChar(d) == <<"0", "1", "2", "3", "4", "5", "6", "7", "8", "9">>[d + 1]

RECURSIVE NatToChars(_)
\* the decimal digits of a number, as a template literal prints it
NatToChars(n) ==
    IF n < 10 THEN <<DigitChar(n)>>
    ELSE NatToChars(n \div 10) \o <<DigitChar(n % 10)>>

RECURSIVE Trim(_)
\* String.prototype.trim
Trim(s) ==
    IF s # <<>> /\ s[1] = " " THEN Trim(Tail(s))
    ELSE IF s # <<>> /\ s[Len(s)] = " " THEN Trim(SubSeq(s, 1, Len(s) - 1))
    ELSE s

\* the index of the first character of s in set cs, or Len(s) + 1
FirstIn(s, cs) ==
    IF \E i \in 1..Len(s) : s[i] \in cs
    THEN CHOOSE i \in 1..Len(s) : s[i] \in cs /\ \A j \in 1..(i - 1) : s[j] \notin cs
    ELSE Len(s) + 1

RECURSIVE SplitOn(_, _)
\* String.prototype.split(c)
SplitOn(s, c) ==
    IF FirstIn(s, {c}) > Len(s) THEN <<s>>
    ELSE <<SubSeq(s, 1, FirstIn(s, {c}) - 1)>>
         \o SplitOn(SubSeq(s, FirstIn(s, {c}) + 1, Len(s)), c)

AllIn(s, cs) == \A i \in 1..Len(s) : s[i] \in cs

\* 0|[1-9]\d*
NumericId(s) == s # <<>> /\ AllIn(s, Digits) /\ (Len(s) = 1 \/ s[1] # "0")
\* a numeric identifier, or \d*[a-zA-Z-][a-zA-Z0-9-]*
PrereleaseId(s) == s # <<>> /\ AllIn(s, IdChars) /\ (AllIn(s, Digits) => NumericId(s))
\* [0-9A-Za-z-]+
BuildId(s) == s # <<>> /\ AllIn(s, IdChars)

\* the prerelease identifiers of what follows MAJOR.MINOR.PATCH
PrereleaseOf(rest) ==
    IF rest # <<>> /\ rest[1] = "-"
    THEN SplitOn(SubSeq(rest, 2, FirstIn(rest, {"+"}) - 1), ".")
    ELSE <<>>

\* the build identifiers of what follows MAJOR.MINOR.PATCH
BuildOf(rest) ==
    IF FirstIn(rest, {"+"}) <= Len(rest)
    THEN SplitOn(SubSeq(rest, FirstIn(rest, {"+"}) + 1, Len(rest)), ".")
    ELSE <<>>

\* the match of MAJOR.MINOR.PATCH, split at the dots, and of what follows it
MatchParts(main, rest, pre, build) ==
    IF /\ Len(main) = 3
       /\ \A i \in 1..3 : NumericId(main[i])
       /\ rest # <<>> => rest[1] \in {"-", "+"}
       /\ \A i \in 1..Len(pre) : PrereleaseId(pre[i])
       /\ \A i \in 1..Len(build) : BuildId(build[i])
    THEN [ok |-> TRUE, main |-> main, pre |-> pre, build |-> build]
    ELSE [ok |-> FALSE]

\* the index where MAJOR.MINOR.PATCH ends: the first character that is no digit or dot
MainEnd(u) == FirstIn(u, {u[i] : i \in 1..Len(u)} \ (Digits \cup {"."}))

MatchAfterV(u, k) ==
    MatchParts(SplitOn(SubSeq(u, 1, k - 1), "."), SubSeq(u, k, Len(u)),
               PrereleaseOf(SubSeq(u, k, Len(u))), BuildOf(SubSeq(u, k, Len(u))))

MatchTrimmed(t) ==
    IF t # <<>> /\ t[1] = "v"
    THEN MatchAfterV(Tail(t), MainEnd(Tail(t)))
    ELSE MatchAfterV(t, MainEnd(t))

\* version.trim().match(re[t.FULL]): ^v?MAJOR.MINOR.PATCH(-PRERELEASE)?(+BUILD)?$
MatchFull(version) == MatchTrimmed(Trim(version))

RECURSIVE JoinDots(_)
\* Array.prototype.join('.')
JoinDots(ids) ==
    IF ids = <<>> THEN <<>>
    ELSE IF Len(ids) = 1 THEN ids[1]
    ELSE ids[1] \o <<".">> \o JoinDots(Tail(ids))

\* SemVer.format(): `${major}.${minor}.${patch}` and, if any, `-${prerelease.join('.')}`
Format(major, minor, patch, pre) ==
    NatToChars(major) \o <<".">> \o NatToChars(minor) \o <<".">> \o NatToChars(patch)
    \o (IF pre = <<>> THEN <<>> ELSE <<"-">> \o JoinDots(pre))

TypeError(msg) == [name |-> "TypeError", message |-> msg]

\* the SemVer object of a match
SemVerOf(version, m) ==
    [t |-> "semver",
     raw |-> version,
     major |-> ToNat(m.main[1]),
     minor |-> ToNat(m.main[2]),
     patch |-> ToNat(m.main[3]),
     prerelease |-> m.pre,
     build |-> m.build,
     version |-> Format(ToNat(m.main[1]), ToNat(m.main[2]), ToNat(m.main[3]), m.pre)]

\* new SemVer(version): the structured version, or the TypeError it throws
SemVer(version) ==
    IF version.t # "str"
    THEN [ok |-> FALSE,
          error |-> TypeError(<<"Invalid version. Must be a string. Got type ", version.t>>)]
    ELSE IF ~MatchFull(version.v).ok
    THEN [ok |-> FALSE, error |-> TypeError(<<"Invalid Version: ">> \o version.v)]
    ELSE [ok |-> TRUE, value |-> SemVerOf(version.v, MatchFull(version.v))]


----------------------------------------------------------------------------
\* back_axios, the store setters and the notifier, as the functions use them

List(items) == [t |-> "list", v |-> items]

\* `${autopilot.API_URL}${path}`
ApiUrl(path) == <<"autopilot.API_URL", path>>

\* what back_axios puts on the wire: a parameter that is undefined or null is left out
Query(params) ==
    {<<k, params[k]>> : k \in {x \in DOMAIN params : params[x].t \notin {"undefined", "null"}}}

Request(method, url, timeout, params) ==
    [method |-> method, url |-> url, timeout |-> timeout, query |-> Query(params)]

NoParams == [x \in {} |-> Null]

\* how a request can end: a response carrying data, or a rejection with an error
Fulfilled(data) == [ok |-> TRUE, data |-> data]
NetworkError == [ok |-> FALSE, error |-> [name |-> "Error", message |-> <<"Network Error">>]]
TimeoutError(request) ==
    [ok |-> FALSE,
     error |-> [name |-> "Error",
                message |-> <<"timeout of ", ToString(request.timeout), "ms exceeded">>]]

\* String(error), as `new Error(error)` takes its message
ErrorToString(error) == <<error.name, ": ">> \o error.message
NewError(error) == [name |-> "Error", message |-> ErrorToString(error)]

\* one call of a store setter
Set(slot, value) == [slot |-> slot, value |-> value]
\* notifier.pushBackError(type, error) and notifier.pushError(type, message)
PushBackError(type, error) == [level |-> "back", type |-> type, error |-> error]
PushError(type, message) == [level |-> "fore", type |-> type, message |-> message]

Resolved(value) == [kind |-> "resolved", value |-> value]
Rejected(error) == [kind |-> "rejected", error |-> error]

\* what one run of a function's continuation does, in order
Effects(writes, notes, settle) == [writes |-> writes, notes |-> notes, settle |-> settle]

----------------------------------------------------------------------------
\* The nine functions: the request each sends, and what each does with the answer

fetchAutopilotSerialConfiguration_request ==
    Request("get", ApiUrl("/serials"), 10000, NoParams)

fetchAutopilotSerialConfiguration(response) ==
    IF response.ok
    THEN Effects(<<Set("AutopilotSerialConfigurations", response.data)>>, <<>>,
                 Resolved(Undefined))
    ELSE Effects(<<Set("AutopilotSerialConfigurations", List(<<>>))>>,
                 <<PushBackError("AUTOPILOT_ENDPOINT_FETCH_FAIL", response.error)>>,
                 Resolved(Undefined))

fetchAvailableEndpoints_request ==
    Request("get", ApiUrl("/endpoints"), 10000, NoParams)

fetchAvailableEndpoints(response) ==
    IF response.ok
    THEN Effects(<<Set("AvailableEndpoints", response.data)>>, <<>>, Resolved(Undefined))
    ELSE Effects(<<Set("AvailableEndpoints", List(<<>>))>>,
                 <<PushBackError("AUTOPILOT_ENDPOINT_FETCH_FAIL", response.error)>>,
                 Resolved(Undefined))

fetchAvailableBoards_request ==
    Request("get", ApiUrl("/available_boards"), 10000, NoParams)

fetchAvailableBoards(response) ==
    IF response.ok
    THEN Effects(<<Set("AvailableBoards", response.data)>>, <<>>, Resolved(Undefined))
    ELSE Effects(<<Set("AvailableBoards", List(<<>>))>>,
                 <<PushBackError("AUTOPILOT_BOARDS_FETCH_FAIL", response.error)>>,
                 Resolved(Undefined))

fetchCurrentBoard_request ==
    Request("get", ApiUrl("/board"), 10000, NoParams)

\* fetchCurrentBoard whose catch also clears the list of boards
fetchCurrentBoard_twoslots(response) ==
    IF response.ok
    THEN Effects(<<Set("CurrentBoard", response.data)>>, <<>>, Resolved(Undefined))
    ELSE Effects(<<Set("CurrentBoard", Null), Set("AvailableBoards", List(<<>>))>>,
                 <<PushBackError("AUTOPILOT_BOARD_FETCH_FAIL", response.error)>>,
                 Resolved(Undefined))

fetchCurrentBoard(response) ==
    IF response.ok
    THEN Effects(<<Set("CurrentBoard", response.data)>>, <<>>, Resolved(Undefined))
    ELSE Effects(<<Set("CurrentBoard", Null)>>,
                 <<PushBackError("AUTOPILOT_BOARD_FETCH_FAIL", response.error)>>,
                 Resolved(Undefined))

fetchFirmwareInfo_request ==
    Request("get", ApiUrl("/firmware_info"), 10000, NoParams)

\* the catch block of fetchFirmwareInfo (lines 81-84)
fetchFirmwareInfo_catch(error) ==
    Effects(<<Set("FirmwareInfo", Null)>>,
            <<PushBackError("AUTOPILOT_FIRM_INFO_FETCH_FAIL", error)>>,
            Resolved(Undefined))

\* fetchFirmwareInfo with the SemVer construction outside the try block
fetchFirmwareInfo_unguarded(response) ==
    IF ~response.ok THEN fetchFirmwareInfo_catch(response.error)
    ELSE IF response.data.t # "obj"
    THEN Effects(<<>>, <<>>,
                 Rejected(TypeError(<<"Cannot read properties of ", response.data.t>>)))
    ELSE LET version == SemVer(response.data.version) IN
         IF ~version.ok THEN Effects(<<>>, <<>>, Rejected(version.error))
         ELSE Effects(<<Set("FirmwareInfo", [response.data EXCEPT !.version = version.value])>>,
                      <<>>, Resolved(Undefined))

\* fetchFirmwareInfo without line 79: the answer is stored as it came
fetchFirmwareInfo_unparsed(response) ==
    IF ~response.ok THEN fetchFirmwareInfo_catch(response.error)
    ELSE Effects(<<Set("FirmwareInfo", response.data)>>, <<>>, Resolved(Undefined))

fetchFirmwareInfo(response) ==
    IF ~response.ok THEN fetchFirmwareInfo_catch(response.error)
    ELSE IF response.data.t # "obj"
    THEN \* reading response.data.version of null throws inside the try
         fetchFirmwareInfo_catch(
             TypeError(<<"Cannot read properties of ", response.data.t>>))
    ELSE LET version == SemVer(response.data.version) IN
         IF ~version.ok THEN fetchFirmwareInfo_catch(version.error)
         ELSE Effects(<<Set("FirmwareInfo", [response.data EXCEPT !.version = version.value])>>,
                      <<>>, Resolved(Undefined))

fetchVehicleType_request ==
    Request("get", ApiUrl("/vehicle_type"), 10000, NoParams)

fetchVehicleType(response) ==
    IF response.ok
    THEN Effects(<<Set("VehicleType", response.data)>>, <<>>, Resolved(Undefined))
    ELSE Effects(<<Set("VehicleType", Null)>>,
                 <<PushBackError("AUTOPILOT_VEHICLE_TYPE_FETCH_FAIL", response.error)>>,
                 Resolved(Undefined))

fetchFirmwareVehicleType_request ==
    Request("get", ApiUrl("/firmware_vehicle_type"), 10000, NoParams)

\* fetchFirmwareVehicleType calling the setter of fetchVehicleType
fetchFirmwareVehicleType_wrongslot(response) ==
    IF response.ok
    THEN Effects(<<Set("VehicleType", response.data)>>, <<>>, Resolved(Undefined))
    ELSE Effects(<<Set("VehicleType", Null)>>,
                 <<PushBackError("AUTOPILOT_FIRMWARE_VEHICLE_TYPE_FETCH_FAIL", response.error)>>,
                 Resolved(Undefined))

fetchFirmwareVehicleType(response) ==
    IF response.ok
    THEN Effects(<<Set("FirmwareVehicleType", response.data)>>, <<>>, Resolved(Undefined))
    ELSE Effects(<<Set("FirmwareVehicleType", Null)>>,
                 <<PushBackError("AUTOPILOT_FIRMWARE_VEHICLE_TYPE_FETCH_FAIL", response.error)>>,
                 Resolved(Undefined))

availableFirmwares_request(vehicleType) ==
    Request("get", ApiUrl("/available_firmwares"), 30000, [vehicle |-> vehicleType])

availableFirmwares(vehicleType, response) ==
    IF response.ok
    THEN Effects(<<>>, <<>>, Resolved(response.data))
    ELSE LET message == <<"Failed to fetch available firmwares for vehicle (",
                          vehicleType.v, "): ">> \o response.error.message
         IN  Effects(<<>>,
                     <<PushError("AUTOPILOT_FIRMWARE_AVAILABLES_FAIL", message)>>,
                     Rejected(NewError(response.error)))

\* installFirmwareFromUrl passing make_default on without `?? false`
installFirmwareFromUrl_request_passthrough(url, make_default) ==
    Request("post", ApiUrl("/install_firmware_from_url"), 30000,
            [url |-> url, make_default |-> make_default])

installFirmwareFromUrl_request(url, make_default) ==
    Request("post", ApiUrl("/install_firmware_from_url"), 30000,
            [url |-> url, make_default |-> Coalesce(make_default, Bool(FALSE))])

installFirmwareFromUrl(url, make_default, response) ==
    IF response.ok
    THEN Effects(<<>>, <<>>, Resolved(response.data))
    ELSE LET message == <<"Failed to fetch available firmwares for vehicle (",
                          url.v, "): ">> \o response.error.message
         IN  Effects(<<>>,
                     <<PushError("AUTOPILOT_FIRMWARE_AVAILABLES_FAIL", message)>>,
                     Rejected(NewError(response.error)))


----------------------------------------------------------------------------
\* Regular expressions, as StatusTextWatcher uses them (lines 171, 181, 190)

\* a RegExp object with this source: literal characters, `.` and a postfix `*`
RegExp(source) == [t |-> "regexp", source |-> source]

\* new RegExp(pattern): a fresh object from a RegExp or from a string
NewRegExp(pattern) ==
    IF pattern.t = "regexp" THEN RegExp(pattern.source) ELSE RegExp(pattern.v)

RECURSIVE MatchHere(_, _)
\* whether the source matches at the start of the text
MatchHere(source, text) ==
    IF source = <<>> THEN TRUE
    ELSE IF Len(source) >= 2 /\ source[2] = "*"
    THEN \E k \in 0..Len(text) :
            /\ \A i \in 1..k : source[1] = "." \/ source[1] = text[i]
            /\ MatchHere(SubSeq(source, 3, Len(source)), SubSeq(text, k + 1, Len(text)))
    ELSE /\ text # <<>>
         /\ source[1] = "." \/ source[1] = text[1]
         /\ MatchHere(Tail(source), Tail(text))

\* RegExp.prototype.test: the pattern matches somewhere in the text
Test(regexp, text) ==
    \E i \in 1..(Len(text) + 1) : MatchHere(regexp.source, SubSeq(text, i, Len(text)))

\* the default of the prop `filter` (line 164)
DefaultFilter == Str(<<>>)

----------------------------------------------------------------------------
\* The request functions as a state machine

InformationalFetches ==
    {"fetchAutopilotSerialConfiguration", "fetchAvailableEndpoints", "fetchAvailableBoards",
     "fetchCurrentBoard", "fetchFirmwareInfo", "fetchVehicleType", "fetchFirmwareVehicleType"}
ActionOperations == {"availableFirmwares", "installFirmwareFromUrl"}
Operations == InformationalFetches \cup ActionOperations

Slots ==
    {"AutopilotSerialConfigurations", "AvailableEndpoints", "AvailableBoards",
     "CurrentBoard", "FirmwareInfo", "VehicleType", "FirmwareVehicleType"}

\* the slot whose setter a fetch calls
SlotOf(op) ==
    CASE op = "fetchAutopilotSerialConfiguration" -> "AutopilotSerialConfigurations"
      [] op = "fetchAvailableEndpoints" -> "AvailableEndpoints"
      [] op = "fetchAvailableBoards" -> "AvailableBoards"
      [] op = "fetchCurrentBoard" -> "CurrentBoard"
      [] op = "fetchFirmwareInfo" -> "FirmwareInfo"
      [] op = "fetchVehicleType" -> "VehicleType"
      [] op = "fetchFirmwareVehicleType" -> "FirmwareVehicleType"

\* the value the catch branch of a fetch stores
Sentinel(slot) ==
    IF slot \in {"AutopilotSerialConfigurations", "AvailableEndpoints", "AvailableBoards"}
    THEN List(<<>>)
    ELSE Null

\* Inputs of the model
Vehicles == {Str("Sub"), Str("Rover")}
Urls == {[t |-> "url", v |-> "http://fw.example/ardusub.apj"]}
MakeDefaults == {Undefined, Bool(TRUE), Bool(FALSE)}

VersionStrings ==
    {<<"4", ".", "1", ".", "0">>,
     <<"1", "2", ".", "0", ".", "3">>,
     <<"v", "4", ".", "1", ".", "0">>,
     <<" ", "4", ".", "1", ".", "0">>,
     <<"4", ".", "1", ".", "0", "-", "b", "1", "+", "g">>,
     <<"4", ".", "1">>,
     <<"0", "4", ".", "1", ".", "0">>,
     <<"4", ".", "1", ".", "x">>}

FirmwareInfoData ==
    {[t |-> "obj", name |-> "ArduSub", version |-> Str(v)] : v \in VersionStrings}
    \cup {[t |-> "obj", name |-> "ArduSub", version |-> Undefined], Null}

ArgsOf(op) ==
    CASE op = "availableFirmwares" -> {<<v>> : v \in Vehicles}
      [] op = "installFirmwareFromUrl" -> {<<u, d>> : u \in Urls, d \in MakeDefaults}
      [] OTHER -> {<<>>}

RequestOf(op, args) ==
    CASE op = "fetchAutopilotSerialConfiguration" -> fetchAutopilotSerialConfiguration_request
      [] op = "fetchAvailableEndpoints" -> fetchAvailableEndpoints_request
      [] op = "fetchAvailableBoards" -> fetchAvailableBoards_request
      [] op = "fetchCurrentBoard" -> fetchCurrentBoard_request
      [] op = "fetchFirmwareInfo" -> fetchFirmwareInfo_request
      [] op = "fetchVehicleType" -> fetchVehicleType_request
      [] op = "fetchFirmwareVehicleType" -> fetchFirmwareVehicleType_request
      [] op = "availableFirmwares" -> availableFirmwares_request(args[1])
      [] op = "installFirmwareFromUrl" -> installFirmwareFromUrl_request(args[1], args[2])

\* the payloads the backend may answer with
DataOf(op) ==
    CASE op = "fetchAutopilotSerialConfiguration" ->
            {List(<<"/dev/ttyS0">>), List(<<"/dev/ttyS0", "/dev/ttyAMA1">>)}
      [] op = "fetchAvailableEndpoints" -> {List(<<"udp:14550">>), List(<<>>)}
      [] op = "fetchAvailableBoards" -> {List(<<"Navigator">>), List(<<"Navigator", "SITL">>)}
      [] op = "fetchCurrentBoard" ->
            {[t |-> "obj", name |-> "Navigator"], [t |-> "obj", name |-> "SITL"]}
      [] op = "fetchFirmwareInfo" -> FirmwareInfoData
      [] op = "fetchVehicleType" -> {Str("Sub"), Str("Rover")}
      [] op = "fetchFirmwareVehicleType" -> {Str("ArduSub"), Str("ArduRover")}
      [] op = "availableFirmwares" -> {List(<<"stable-4.1.0">>), List(<<>>)}
      [] op = "installFirmwareFromUrl" -> {Str("installed")}

\* every way the request of an invocation can end
ResponsesOf(r) ==
    {Fulfilled(d) : d \in DataOf(r.op)} \cup {NetworkError, TimeoutError(r.request)}

\* the continuation of the function an invocation belongs to
Continue(op, args, response) ==
    CASE op = "fetchAutopilotSerialConfiguration" -> fetchAutopilotSerialConfiguration(response)
      [] op = "fetchAvailableEndpoints" -> fetchAvailableEndpoints(response)
      [] op = "fetchAvailableBoards" -> fetchAvailableBoards(response)
      [] op = "fetchCurrentBoard" -> fetchCurrentBoard(response)
      [] op = "fetchFirmwareInfo" -> fetchFirmwareInfo(response)
      [] op = "fetchVehicleType" -> fetchVehicleType(response)
      [] op = "fetchFirmwareVehicleType" -> fetchFirmwareVehicleType(response)
      [] op = "availableFirmwares" -> availableFirmwares(args[1], response)
      [] op = "installFirmwareFromUrl" -> installFirmwareFromUrl(args[1], args[2], response)

RECURSIVE Apply(_, _)
\* the store after the setter calls, in order
Apply(st, writes) ==
    IF writes = <<>> THEN st
    ELSE Apply([st EXCEPT ![Head(writes).slot] = Head(writes).value], Tail(writes))

InitStore == [s \in Slots |-> Sentinel(s)]

NoCallback == [n |-> 0]

InitWatcher ==
    /\ phase = "created"
    /\ filter = DefaultFilter
    /\ filterRegex = RegExp(<<".", "*">>)
    /\ messages = <<>>
    /\ listener = Undefined
    /\ bus = [started |-> 0, discarded |-> 0, faults |-> 0]
    /\ received = <<>>
    /\ lastCb = NoCallback

Init ==
    /\ store = InitStore
    /\ inflight = {}
    /\ calls = 0
    /\ issued = <<>>
    /\ last = [id |-> 0]
    /\ InitWatcher

\* a caller invokes a function: it runs up to its await, the request is on the wire
Call(op, args) ==
    /\ calls < MaxCalls
    /\ calls' = calls + 1
    /\ issued' = Append(issued, op)
    /\ inflight' = inflight \cup
           {[id |-> calls + 1, op |-> op, args |-> args, request |-> RequestOf(op, args)]}
    /\ UNCHANGED <<store, last>>
    /\ UNCHANGED watcherVars

\* the request of invocation r ends with `response` and the function runs to its end
Settle(r, response) ==
    LET effects == Continue(r.op, r.args, response) IN
    /\ inflight' = inflight \ {r}
    /\ store' = Apply(store, effects.writes)
    /\ last' = [id |-> r.id, op |-> r.op, args |-> r.args, request |-> r.request,
                response |-> response, before |-> store,
                writes |-> effects.writes, notes |-> effects.notes,
                settle |-> effects.settle,
                overtaken |-> \E i \in (r.id + 1)..calls :
                                 /\ issued[i] = r.op
                                 /\ \A q \in inflight : q.id # i]
    /\ UNCHANGED <<calls, issued>>
    /\ UNCHANGED watcherVars

Next ==
    \/ \E op \in Operations : \E args \in ArgsOf(op) : Call(op, args)
    \/ \E r \in inflight : \E response \in ResponsesOf(r) : Settle(r, response)

Spec == Init /\ [][Next]_vars

----------------------------------------------------------------------------
\* StatusTextWatcher

\* the text of a STATUSTEXT message: an array of characters
Chars(s) == [i \in 1..Len(s) |-> <<s[i]>>]

\* Inputs of the model
IncomingTexts ==
    {Chars(<<"E", "R", "R">>),
     Chars(<<"o", "k">>),
     Chars(<<"E", "R", "R", ":", " ", "x">>),
     Chars(<<>>)}
Filters ==
    {RegExp(<<"E", "R", "R">>), RegExp(<<"o", "k">>), RegExp(<<"E", ".", "*", "x">>)}

\* the callback dropping a text that equals any earlier line
callback_dedupeall(msgs, flt, receivedMessage) ==
    LET text == Flatten(receivedMessage.message.text) IN
    IF \E i \in 1..Len(msgs) : msgs[i] = text THEN <<>>
    ELSE (IF Test(NewRegExp(flt), text)
          THEN <<[do |-> "emit", event |-> "message", text |-> text]>>
          ELSE <<>>)
         \o <<[do |-> "push", text |-> text]>>

\* the callback testing this.filterRegex instead of the prop
callback_compiled(msgs, flt, receivedMessage) ==
    LET text == Flatten(receivedMessage.message.text) IN
    IF msgs # <<>> /\ msgs[Len(msgs)] = text THEN <<>>
    ELSE (IF Test(filterRegex, text)
          THEN <<[do |-> "emit", event |-> "message", text |-> text]>>
          ELSE <<>>)
         \o <<[do |-> "push", text |-> text]>>

\* the callback given to setCallback in mounted() (lines 185-194): its steps, in order
callback(msgs, flt, receivedMessage) ==
    LET text == Flatten(receivedMessage.message.text) IN
    IF msgs # <<>> /\ msgs[Len(msgs)] = text THEN <<>>
    ELSE (IF Test(NewRegExp(flt), text)
          THEN <<[do |-> "emit", event |-> "message", text |-> text]>>
          ELSE <<>>)
         \o <<[do |-> "push", text |-> text]>>

RECURSIVE Pushed(_, _)
\* this.messages after the pushes among the steps
Pushed(msgs, steps) ==
    IF steps = <<>> THEN msgs
    ELSE Pushed(IF Head(steps).do = "push" THEN Append(msgs, Head(steps).text) ELSE msgs,
                Tail(steps))

\* beforeDestroy() without the optional chaining: this.listener.discard()
beforeDestroy_unguarded(lst) ==
    IF lst.t = "undefined" THEN [discarded |-> 0, faults |-> 1]
    ELSE [discarded |-> 1, faults |-> 0]

\* beforeDestroy() (line 197): this.listener?.discard()
beforeDestroy(lst) ==
    IF lst.t = "undefined" THEN [discarded |-> 0, faults |-> 0]
    ELSE [discarded |-> 1, faults |-> 0]

\* mounted(): start listening to STATUSTEXT and keep the listener
Mounted ==
    /\ phase = "created"
    /\ phase' = "mounted"
    /\ bus' = [bus EXCEPT !.started = @ + 1]
    /\ listener' = [t |-> "listener", name |-> "STATUSTEXT", id |-> bus.started + 1]
    /\ UNCHANGED <<filter, filterRegex, messages, received, lastCb>>
    /\ UNCHANGED gatewayVars

\* a STATUSTEXT message arrives while the listener is registered
Receive(textArray) ==
    LET steps == callback(messages, filter, [message |-> [text |-> textArray]]) IN
    /\ phase = "mounted"
    /\ Len(received) < MaxMessages
    /\ received' = Append(received, textArray)
    /\ messages' = Pushed(messages, steps)
    /\ lastCb' = [n |-> Len(received) + 1, text |-> Flatten(textArray),
                  filter |-> filter, before |-> messages, steps |-> steps]
    /\ UNCHANGED <<phase, filter, filterRegex, listener, bus>>
    /\ UNCHANGED gatewayVars

\* the parent changes the prop `filter`; the watcher (lines 180-182) runs
FilterChanged(newFilter) ==
    /\ phase \in {"created", "mounted"}
    /\ newFilter # filter
    /\ filter' = newFilter
    /\ filterRegex' = NewRegExp(newFilter)
    /\ UNCHANGED <<phase, messages, listener, bus, received, lastCb>>
    /\ UNCHANGED gatewayVars

\* the component is torn down, mounted or not
BeforeDestroy ==
    LET done == beforeDestroy(listener) IN
    /\ phase \in {"created", "mounted"}
    /\ phase' = "destroyed"
    /\ bus' = [bus EXCEPT !.discarded = @ + done.discarded, !.faults = @ + done.faults]
    /\ UNCHANGED <<filter, filterRegex, messages, listener, received, lastCb>>
    /\ UNCHANGED gatewayVars

InitW ==
    /\ store = InitStore
    /\ inflight = {}
    /\ calls = 0
    /\ issued = <<>>
    /\ last = [id |-> 0]
    /\ phase = "created"
    /\ filter \in {DefaultFilter} \cup Filters
    /\ filterRegex = RegExp(<<".", "*">>)
    /\ messages = <<>>
    /\ listener = Undefined
    /\ bus = [started |-> 0, discarded |-> 0, faults |-> 0]
    /\ received = <<>>
    /\ lastCb = NoCallback

NextW ==
    \/ Mounted
    \/ \E textArray \in IncomingTexts : Receive(textArray)
    \/ \E newFilter \in Filters : FilterChanged(newFilter)
    \/ BeforeDestroy

SpecW == InitW /\ [][NextW]_vars

----------------------------------------------------------------------------
\* Properties of the request functions (of Spec)

Settled == last.id # 0
Failed == ~last.response.ok

\* the version strings of VersionStrings that are semantic versions, listed by hand
ValidVersionStrings ==
    {<<"4", ".", "1", ".", "0">>,
     <<"1", "2", ".", "0", ".", "3">>,
     <<"v", "4", ".", "1", ".", "0">>,
     <<" ", "4", ".", "1", ".", "0">>,
     <<"4", ".", "1", ".", "0", "-", "b", "1", "+", "g">>}

\* the answer is a payload the function can store: for firmware info, one whose
\* version is a semantic version
Usable ==
    /\ last.response.ok
    /\ last.op = "fetchFirmwareInfo" =>
          /\ last.response.data.t = "obj"
          /\ last.response.data.version.t = "str"
          /\ last.response.data.version.v \in ValidVersionStrings

\* the notification code a fetch raises when its request fails
FailureCode(op) == Continue(op, <<>>, NetworkError).notes[1].type

\* C1: a fetch whose HTTP call fails sets its own slot to its sentinel and raises
\* exactly one background notification, whose code is the operation's own: no
\* other fetch raises the same code.
C1_FailedFetchSentinelAndOwnCode ==
    (Settled /\ last.op \in InformationalFetches /\ Failed) =>
        /\ last.writes = <<Set(SlotOf(last.op), Sentinel(SlotOf(last.op)))>>
        /\ store[SlotOf(last.op)] = Sentinel(SlotOf(last.op))
        /\ Len(last.notes) = 1
        /\ last.notes[1].level = "back"
        /\ \A other \in InformationalFetches \ {last.op} :
              FailureCode(other) # last.notes[1].type

\* whether a token occurs in a message
Contains(message, token) == \E i \in 1..Len(message) : message[i] = token

\* C2: availableFirmwares and installFirmwareFromUrl, when the HTTP call fails,
\* reject with an error whose message contains the vehicle type, respectively
\* the URL, and raise exactly one foreground notification.
C2_FailedActionRejectsWithParameter ==
    (Settled /\ last.op \in ActionOperations /\ Failed) =>
        /\ last.settle.kind = "rejected"
        /\ Contains(last.settle.error.message, last.args[1].v)
        /\ Len(last.notes) = 1
        /\ last.notes[1].level = "fore"

\* C3: the seven fetches always resolve, whatever the answer; the two action
\* operations reject on every HTTP failure and resolve with the payload on success.
C3_OnlyActionsReject ==
    Settled =>
        /\ last.op \in InformationalFetches => last.settle.kind = "resolved"
        /\ last.op \in ActionOperations =>
              IF Failed THEN last.settle.kind = "rejected"
              ELSE last.settle = Resolved(last.response.data)

C3_Witness ==
    /\ Settled
    /\ last.op = "fetchFirmwareInfo"
    /\ last.response.ok
    /\ last.response.data.t = "obj"
    /\ last.response.data.version = Str(<<"4", ".", "1">>)
    /\ last.settle.kind = "resolved"

\* `${major}.${minor}.${patch}` of a stored version
Canonical(v) ==
    NatToChars(v.major) \o <<".">> \o NatToChars(v.minor) \o <<".">> \o NatToChars(v.patch)

\* the string without surrounding blanks and without a leading v
Bare(s) ==
    LET t == Trim(s) IN IF t # <<>> /\ t[1] = "v" THEN Tail(t) ELSE t

\* C4: the firmware-info slot holds null, or a record whose version is the
\* structured semantic version of the answer's version string: numbers for
\* major, minor and patch that print back to the start of that string, which
\* is a valid version ("4.1.0" gives 4, 1, 0).
C4_FirmwareInfoNullOrParsed ==
    store["FirmwareInfo"] # Null =>
        /\ store["FirmwareInfo"].t = "obj"
        /\ store["FirmwareInfo"].version.t = "semver"
        /\ LET v == store["FirmwareInfo"].version IN
           /\ v.major \in Nat /\ v.minor \in Nat /\ v.patch \in Nat
           /\ v.raw \in ValidVersionStrings
           /\ Len(Canonical(v)) <= Len(Bare(v.raw))
           /\ SubSeq(Bare(v.raw), 1, Len(Canonical(v))) = Canonical(v)
           /\ v.raw = <<"4", ".", "1", ".", "0">> =>
                 v.major = 4 /\ v.minor = 1 /\ v.patch = 0

C4_Witness ==
    /\ Settled
    /\ last.op = "fetchFirmwareInfo"
    /\ store["FirmwareInfo"] # Null
    /\ store["FirmwareInfo"].version.raw = <<"1", "2", ".", "0", ".", "3">>
    /\ store["FirmwareInfo"].version.major = 12
    /\ store["FirmwareInfo"].version.patch = 3

\* C8: a settling invocation changes no slot but its own operation's, and the
\* slot of a fetch then holds what that invocation wrote, its payload or the
\* sentinel, also when an invocation of the same fetch made later settled earlier.
C8_OwnSlotLastWriterWins ==
    Settled =>
        /\ \A s \in Slots :
              (last.op \in ActionOperations \/ s # SlotOf(last.op)) =>
                  store[s] = last.before[s]
        /\ last.op \in InformationalFetches =>
              LET s == SlotOf(last.op) IN
              /\ Failed => store[s] = Sentinel(s)
              /\ (last.response.ok /\ last.op # "fetchFirmwareInfo") =>
                    store[s] = last.response.data
              /\ (last.response.ok /\ last.op = "fetchFirmwareInfo") =>
                    IF Usable
                    THEN /\ store[s] # Null
                         /\ store[s].name = last.response.data.name
                         /\ store[s].version.raw = last.response.data.version.v
                    ELSE store[s] = Null

C8_Witness ==
    /\ Settled
    /\ last.op = "fetchVehicleType"
    /\ last.id = 1
    /\ last.overtaken
    /\ Failed
    /\ last.before["VehicleType"] = Str("Rover")
    /\ store["VehicleType"] = Null

\* C9 as claimed: every operation writes at most one slot and emits at most one
\* notification, and does at least one of the two; a fetch writes only its own
\* slot and emits nothing on success; an action operation writes no slot.
C9_AtLeastOneEffect ==
    Settled =>
        /\ Len(last.writes) <= 1
        /\ Len(last.notes) <= 1
        /\ Len(last.writes) + Len(last.notes) >= 1
        /\ last.op \in InformationalFetches =>
              /\ \A i \in 1..Len(last.writes) : last.writes[i].slot = SlotOf(last.op)
              /\ \A s \in Slots \ {SlotOf(last.op)} : store[s] = last.before[s]
              /\ Usable => last.notes = <<>>
        /\ last.op \in ActionOperations => last.writes = <<>>

\* C9, amended: every operation writes at most one slot and emits at most one
\* notification; a fetch writes exactly its own slot, with no notification
\* when it stores the payload and exactly one when it stores the sentinel; an
\* action operation writes no slot, and emits exactly one notification on
\* failure and none on success, when it does neither.
C9_AtMostOneEffect ==
    Settled =>
        /\ Len(last.writes) <= 1
        /\ Len(last.notes) <= 1
        /\ last.op \in InformationalFetches =>
              /\ Len(last.writes) = 1
              /\ last.writes[1].slot = SlotOf(last.op)
              /\ \A s \in Slots \ {SlotOf(last.op)} : store[s] = last.before[s]
              /\ Len(last.notes) = (IF Usable THEN 0 ELSE 1)
        /\ last.op \in ActionOperations =>
              /\ last.writes = <<>>
              /\ store = last.before
              /\ Len(last.notes) = (IF Failed THEN 1 ELSE 0)

C9_Witness ==
    /\ Settled
    /\ last.op = "availableFirmwares"
    /\ last.response.ok
    /\ last.writes = <<>>
    /\ last.notes = <<>>
    /\ last.settle.kind = "resolved"

\* the make_default parameters of a request on the wire
MakeDefaultSent(request) == {q \in request.query : q[1] = "make_default"}

\* C10: every installFirmwareFromUrl request carries make_default: false when
\* the caller's make_default is undefined, the caller's value otherwise.
C10_MakeDefaultAlwaysSent ==
    \A r \in inflight :
        r.op = "installFirmwareFromUrl" =>
            MakeDefaultSent(r.request) =
                {<<"make_default", IF r.args[2] = Undefined THEN Bool(FALSE) ELSE r.args[2]>>}

C10_Witness ==
    \E r \in inflight :
        /\ r.op = "installFirmwareFromUrl"
        /\ r.args[2] = Undefined
        /\ <<"make_default", Bool(FALSE)>> \in r.request.query
        /\ r.request.method = "post"

----------------------------------------------------------------------------
\* Properties of StatusTextWatcher (of SpecW)

RECURSIVE Collapse(_)
\* a sequence of texts with each run of adjacent equal texts reduced to one
Collapse(texts) ==
    IF Len(texts) <= 1 THEN texts
    ELSE LET rest == Collapse(Tail(texts)) IN
         IF Head(texts) = Head(rest) THEN rest ELSE <<Head(texts)>> \o rest

ReceivedTexts == [i \in 1..Len(received) |-> Flatten(received[i])]

\* C5: the history is the received texts, in arrival order, with each run of
\* adjacent equal texts collapsed to one; no two adjacent lines are equal.
C5_HistoryIsCollapsedArrivals ==
    /\ messages = Collapse(ReceivedTexts)
    /\ \A i \in 1..(Len(messages) - 1) : messages[i] # messages[i + 1]

C5_Witness ==
    /\ Len(received) = 4
    /\ ReceivedTexts[1] = <<"E", "R", "R">>
    /\ ReceivedTexts[2] = <<"E", "R", "R">>
    /\ ReceivedTexts[3] = <<"o", "k">>
    /\ ReceivedTexts[4] = <<"E", "R", "R">>
    /\ messages = <<<<"E", "R", "R">>, <<"o", "k">>, <<"E", "R", "R">>>>

\* which texts each filter of the model matches, listed by hand
Matches(flt, text) ==
    CASE flt = DefaultFilter -> TRUE
      [] flt = RegExp(<<"E", "R", "R">>) ->
            text \in {<<"E", "R", "R">>, <<"E", "R", "R", ":", " ", "x">>}
      [] flt = RegExp(<<"o", "k">>) -> text = <<"o", "k">>
      [] flt = RegExp(<<"E", ".", "*", "x">>) -> text = <<"E", "R", "R", ":", " ", "x">>

\* C6: a message that is not an adjacent duplicate emits exactly one 'message'
\* event with its text, before it is appended, exactly when the text matches
\* the filter prop as it is when the message arrives; otherwise no event.
C6_EmitIffMatchesCurrentFilter ==
    lastCb.n # 0 =>
        LET duplicate == lastCb.before # <<>> /\ lastCb.before[Len(lastCb.before)] = lastCb.text
            emit == [do |-> "emit", event |-> "message", text |-> lastCb.text]
            push == [do |-> "push", text |-> lastCb.text]
        IN  lastCb.steps =
                IF duplicate THEN <<>>
                ELSE IF Matches(lastCb.filter, lastCb.text) THEN <<emit, push>>
                ELSE <<push>>

C6_Witness ==
    /\ lastCb.n >= 2
    /\ lastCb.filter = RegExp(<<"E", "R", "R">>)
    /\ filterRegex = RegExp(<<"E", "R", "R">>)
    /\ lastCb.text = <<"E", "R", "R", ":", " ", "x">>
    /\ Len(lastCb.steps) = 2
    /\ lastCb.steps[1].do = "emit"
    /\ lastCb.before = <<<<"o", "k">>>>

\* C7: at most one subscription is ever started, at mount; a teardown after
\* mount discards it exactly once; a teardown without a listener discards
\* nothing and raises no fault.
C7_SubscriptionReleasedOnce ==
    /\ bus.started = (IF listener = Undefined THEN 0 ELSE 1)
    /\ phase = "created" => listener = Undefined
    /\ phase = "mounted" => listener # Undefined
    /\ bus.faults = 0
    /\ bus.discarded = (IF phase = "destroyed" THEN bus.started ELSE 0)

C7_Witness ==
    /\ phase = "destroyed"
    /\ bus.started = 1
    /\ bus.discarded = 1
    /\ Len(received) > 0

====
